---- MODULE Spec2Model ----
(***************************************************************************)
(* Model of blockserver/server.py: the streaming HTTP gateway FileHandler  *)
(* (prepare / data_received / get / post / delete), its authorization      *)
(* callbacks (check_auth, dummy_auth) and the thread-pool bridge to the    *)
(* storage Transfer.                                                       *)
(*                                                                         *)
(* The tornado framework drives the handler: it calls prepare() when the   *)
(* headers are read, data_received() for every body chunk once prepare()   *)
(* has completed, and the verb method once the body is complete and the    *)
(* response is not yet finished.  send_error() after the response has      *)
(* been finished changes nothing.  An exception raised by the verb method  *)
(* is turned into send_error(500); an exception raised by data_received    *)
(* closes the connection.                                                  *)
(*                                                                         *)
(* The storage Transfer (blockserver.backends) is not part of server.py;   *)
(* it is modelled from its contract: store -> Receipt, retrieve ->         *)
(* Receipt | None, delete.                                                 *)
(***************************************************************************)
EXTENDS Integers, Sequences, FiniteSets, TLC

\* ------------------------------------------------------------------ bounds
NumReqs == 2        \* requests handled in one behaviour
MaxChunks == 2      \* body chunks delivered to one request

\* ------------------------------------------------------- program constants
ReadSize == 8192    \* f_in.read(8192)

Reqs == 1..NumReqs

\* Optional values: None, or a value wrapped in a one-element sequence.
None == <<>>
Some(x) == <<x>>
Val(o) == o[1]

\* ------------------------------------------------------------ byte strings
\* A byte string is kept run-length encoded: a sequence of runs [b, n] (the
\* byte b repeated n >= 1 times), adjacent runs holding different bytes, so
\* that equal byte strings are equal values and 8192-byte reads are cheap.
Run(b, n) == [b |-> b, n |-> n]

RECURSIVE BLen(_)
BLen(s) == IF s = <<>> THEN 0 ELSE Head(s).n + BLen(Tail(s))

\* s followed by t
Cat(s, t) ==
    IF s = <<>> THEN t
    ELSE IF t = <<>> THEN s
    ELSE IF s[Len(s)].b = t[1].b
         THEN SubSeq(s, 1, Len(s) - 1)
              \o <<Run(t[1].b, s[Len(s)].n + t[1].n)>>
              \o Tail(t)
         ELSE s \o t

\* the first k bytes of s (all of s when it is shorter)
RECURSIVE Take(_, _)
Take(s, k) ==
    IF s = <<>> \/ k <= 0 THEN <<>>
    ELSE IF Head(s).n <= k
         THEN <<Head(s)>> \o Take(Tail(s), k - Head(s).n)
         ELSE <<Run(Head(s).b, k)>>

\* s without its first k bytes
RECURSIVE Drop(_, _)
Drop(s, k) ==
    IF s = <<>> \/ k <= 0 THEN s
    ELSE IF Head(s).n <= k
         THEN Drop(Tail(s), k - Head(s).n)
         ELSE <<Run(Head(s).b, Head(s).n - k)>> \o Tail(s)

\* the concatenation of a sequence of byte strings
RECURSIVE Join(_)
Join(cs) == IF cs = <<>> THEN <<>> ELSE Cat(Head(cs), Join(Tail(cs)))

\* The body chunks a client may send: one byte, and a full 8192-byte block.
Chunks == { <<Run("a", 1)>>, <<Run("b", ReadSize)>> }

\* --------------------------------------------------------------- inputs
Methods == {"GET", "POST", "DELETE"}
Prefixes == {"test", "other"}
FilePaths == {"doc1"}
magicauth == "Token MAGICFARYDUST"
\* the Authorization header: absent, or the magic token
AuthHeaders == {None, Some(magicauth)}
\* ETags are the backend's version numbers 1, 2, ...
ETags == 1..NumReqs
\* the If-None-Match header: absent, or an ETag
IfNoneMatch == {None} \cup {Some(e) : e \in ETags}
\* status codes the accounting server's answer may carry; 599 is what
\* fetch(raise_error=False) reports for a network failure or a timeout
AuthCodes == {204, 200, 403, 599}
\* The part of the URL after /api/v0/files/, as a sequence of tokens: a
\* word is a non-empty run of characters of [\d\w-], any other character
\* is a token of its own.
Words == Prefixes \cup FilePaths \cup {"a", "b", "x"}
GoodUrls == {<<p, "/", f>> : p \in Prefixes, f \in FilePaths}
             \cup {<<"test", "/", "doc1", "?", "x">>}
BadUrls == { <<"test", "/", "a", "/", "b">>,   \* a '/' in the path segment
             <<"test", "/", "a", ".", "b">>,   \* a character outside [\d\w-]
             <<"test">>,                      \* the path segment is missing
             <<"test", "/">> }
Urls == GoodUrls \cup BadUrls

\* request.path: the URL up to the first '?' (the query string is not
\* part of the path)
RECURSIVE PathOf(_)
PathOf(url) ==
    IF url = <<>> \/ Head(url) = "?" THEN <<>>
    ELSE <<Head(url)>> \o PathOf(Tail(url))

\* make_app: the route (?P<prefix>[\d\w-]+)/(?P<file_path>[\d\w-]+),
\* matched against the whole path: the two named groups, or nothing
Route(url) ==
    LET path == PathOf(url) IN
    IF Len(path) = 3 /\ path[1] \in Words /\ path[2] = "/"
       /\ path[3] \in Words
    THEN Some([prefix |-> path[1], file_path |-> path[3]])
    ELSE None

\* options.noauth, options.dummy_auth, options.dummy
Configs == [noauth : BOOLEAN, dummy_auth : BOOLEAN, dummy : BOOLEAN]

VARIABLES
    options,   \* the command-line flags, fixed at start
    pc,        \* pc[r]: where request r is in its lifecycle
    request,   \* request[r]: method, route arguments and headers of r
    auth,      \* self.auth of r's handler: "None", "True" or "False"
    temp,      \* self.temp of r's handler and the file behind it
    response,  \* what r's handler has emitted
    call,      \* the backend call r's handler submitted to its thread pool
    objects,   \* the storage backend: key -> None | Some(object)
    etags,     \* number of ETags the backend has issued
    conn,      \* conn[r]: the client of r is still connected
    code,      \* code[r]: the accounting server's answer to r, once known
    sent,      \* sent[r]: the body bytes delivered to r's handler so far
    log        \* log[r]: the lifecycle events of r, in order

vars == <<options, pc, request, auth, temp, response, call, objects, etags,
          conn, code, sent, log>>

Keys == Prefixes \X FilePaths
KeyOf(r) == <<request[r].prefix, request[r].file_path>>

NoRequest == [method |-> "-", prefix |-> "-", file_path |-> "-",
              auth_header |-> None, if_none_match |-> None]
NoTemp == [state |-> "unset", ondisk |-> FALSE, data |-> <<>>]
\* a fresh RequestHandler: status 200, no header, nothing written
NoResponse == [status |-> 200, etag |-> None, body |-> <<>>,
               finished |-> FALSE, delivered |-> FALSE]
NoObject == [prefix |-> "-", file_path |-> "-", etag |-> None,
             local_file |-> None]
NoCall == [op |-> "-", state |-> "none", obj |-> NoObject, result |-> None]

StorageObject(prefix, file_path, etag, local_file) ==
    [prefix |-> prefix, file_path |-> file_path, etag |-> etag,
     local_file |-> local_file]

Init ==
    /\ options \in Configs
    /\ pc = [r \in Reqs |-> "idle"]
    /\ request = [r \in Reqs |-> NoRequest]
    /\ auth = [r \in Reqs |-> "None"]
    /\ temp = [r \in Reqs |-> NoTemp]
    /\ response = [r \in Reqs |-> NoResponse]
    /\ call = [r \in Reqs |-> NoCall]
    /\ objects = [k \in Keys |-> None]
    /\ etags = 0
    /\ conn = [r \in Reqs |-> TRUE]
    /\ code = [r \in Reqs |-> None]
    /\ sent = [r \in Reqs |-> <<>>]
    /\ log = [r \in Reqs |-> <<>>]

\* ------------------------------------------------------- authorization
dummy_auth(a, prefix) == a = Some(magicauth) /\ prefix = "test"

\* faulty variant: any 2xx answer of the accounting server counts as success
check_auth_2xx(a, prefix, c) ==
    IF options.noauth THEN TRUE
    ELSE IF options.dummy_auth THEN dummy_auth(a, prefix)
    ELSE c \in 200..299

\* check_auth; c is the status code of the accounting server's answer,
\* read only on the remote path
check_auth(a, prefix, c) ==
    IF options.noauth THEN TRUE
    ELSE IF options.dummy_auth THEN dummy_auth(a, prefix)
    ELSE c = 204

\* main: auth_callback=lambda: dummy_auth if options.dummy else check_auth
auth_callback(a, prefix, c) ==
    IF options.dummy THEN dummy_auth(a, prefix) ELSE check_auth(a, prefix, c)

\* the callback awaits http_client.fetch: prepare is suspended meanwhile
Fetches == ~options.dummy /\ ~options.noauth /\ ~options.dummy_auth

\* ------------------------------------------------------------ responses
\* RequestHandler.finish(): the response is complete; it reaches the
\* client when the connection is still open
finish(rsp, connected) ==
    [rsp EXCEPT !.finished = TRUE, !.delivered = connected]

\* RequestHandler.send_error(status): clears headers and body, sets the
\* status and finishes; once the response is finished it changes nothing
send_error(rsp, status, connected) ==
    IF rsp.finished THEN rsp
    ELSE finish([rsp EXCEPT !.status = status, !.etag = None,
                            !.body = <<>>], connected)

\* -------------------------------------------------------------- prepare
\* self.auth after the callback answered ok
prepare_auth(ok) == IF ok THEN "True" ELSE "False"

\* faulty variant: the transient file is opened before the callback has answered
prepare_temp_early(method, ok) ==
    IF method = "POST"
    THEN [state |-> "open", ondisk |-> TRUE, data |-> <<>>]
    ELSE [state |-> "unset", ondisk |-> FALSE, data |-> <<>>]

\* self.temp after prepare: tempfile.NamedTemporaryFile(delete=False), an
\* open handle on a new empty file, for an authorized POST only
prepare_temp(method, ok) ==
    IF ok /\ method = "POST"
    THEN [state |-> "open", ondisk |-> TRUE, data |-> <<>>]
    ELSE NoTemp

\* the response after prepare: send_error(403) when the callback denied
prepare_response(rsp, ok, connected) ==
    IF ok THEN rsp ELSE send_error(rsp, 403, connected)

\* prepare from the callback's answer to its end, for request r with
\* headers q.  A denied request is finished, so its verb method is never
\* called; neither is the method of a request whose client has gone.
Prepared(r, q, ok) ==
    /\ auth' = [auth EXCEPT ![r] = prepare_auth(ok)]
    /\ temp' = [temp EXCEPT ![r] = prepare_temp(q.method, ok)]
    /\ response' = [response EXCEPT
                       ![r] = prepare_response(@, ok, conn[r])]
    /\ pc' = [pc EXCEPT ![r] = IF ~ok THEN "rejected"
                               ELSE IF conn[r] THEN "streaming"
                               ELSE "aborted"]
    /\ log' = [log EXCEPT ![r] =
                  @ \o <<prepare_auth(ok)>>
                    \o (IF prepare_temp(q.method, ok).state = "open"
                        THEN <<"open">> ELSE <<>>)
                    \o (IF ok THEN <<>> ELSE <<"respond">>)]

\* The headers of request r are read: initialize() and prepare() run, up
\* to the await of the remote check, or to the end of prepare() when the
\* callback answers without a network call.  The route gives prefix and
\* file_path, so path_kwargs holds both.
prepare(r) ==
    /\ pc[r] = "idle"
    /\ \A q \in Reqs : q < r => pc[q] # "idle"
    /\ \E m \in Methods, url \in Urls,
          a \in AuthHeaders, e \in IfNoneMatch :
          LET p == Val(Route(url)).prefix
              f == Val(Route(url)).file_path
              q == [method |-> m, prefix |-> p, file_path |-> f,
                    auth_header |-> a, if_none_match |-> e]
          IN /\ Route(url) # None
             \* only get() reads If-None-Match
             /\ m # "GET" => e = None
             /\ request' = [request EXCEPT ![r] = q]
             /\ IF Fetches
                THEN /\ pc' = [pc EXCEPT ![r] = "awaiting_auth"]
                     /\ UNCHANGED <<auth, temp, response, log>>
                ELSE Prepared(r, q, auth_callback(a, p, 0))
    /\ UNCHANGED <<options, call, objects, etags, conn, code, sent>>

\* A request whose URL matches no route never reaches FileHandler (the
\* KeyError branch of prepare is not reached either: a match always binds
\* both groups): the framework answers it 404.
unrouted(r) ==
    /\ pc[r] = "idle"
    /\ \A q \in Reqs : q < r => pc[q] # "idle"
    /\ \E m \in Methods, url \in Urls :
          /\ Route(url) = None
          /\ request' = [request EXCEPT ![r] = [NoRequest EXCEPT
                                                   !.method = m]]
    /\ pc' = [pc EXCEPT ![r] = "unrouted"]
    /\ response' = [response EXCEPT ![r] = send_error(@, 404, conn[r])]
    /\ log' = [log EXCEPT ![r] = <<"respond">>]
    /\ UNCHANGED <<options, auth, temp, call, objects, etags, conn, code,
                   sent>>

\* The accounting server's answer (or the 599 of a failed fetch) arrives:
\* check_auth returns and prepare() runs to its end.
prepare_resume(r) ==
    /\ pc[r] = "awaiting_auth"
    /\ \E c \in AuthCodes :
          /\ code' = [code EXCEPT ![r] = Some(c)]
          /\ Prepared(r, request[r],
                      auth_callback(request[r].auth_header,
                                    request[r].prefix, c))
    /\ UNCHANGED <<options, request, call, objects, etags, conn, sent>>

\* -------------------------------------------------------- data_received
\* faulty variant: the guard of data_received is missing
accepts_always(a) == TRUE

\* not (not self.auth)
accepts(a) == a = "True"

\* faulty variant: each chunk replaces the file's content
write_overwrite(t, chunk) == [t EXCEPT !.data = chunk]

\* faulty variant: each chunk is put in front of the file's content
write_prepend(t, chunk) == [t EXCEPT !.data = Cat(chunk, @)]

\* self.temp.write(chunk): append to the file
write(t, chunk) == [t EXCEPT !.data = Cat(@, chunk)]

\* the number of body chunks delivered to r's handler so far
NumChunks(r) ==
    Cardinality({i \in DOMAIN log[r] :
                    log[r][i] \in {"write", "refuse", "raise"}})

\* A body chunk is delivered to r's handler.  A chunk that is not
\* accepted gets send_error() (status 500 unless the response is already
\* finished).  An accepted chunk is written to self.temp; a handler
\* without self.temp (any verb but POST) raises AttributeError, and the
\* framework closes the connection.
data_received(r) ==
    /\ pc[r] \in {"streaming", "rejected"}
    /\ conn[r]
    /\ NumChunks(r) < MaxChunks
    /\ \E chunk \in Chunks :
          /\ sent' = [sent EXCEPT ![r] = Cat(@, chunk)]
          /\ IF ~accepts(auth[r])
             THEN /\ response' = [response EXCEPT
                                     ![r] = send_error(@, 500, conn[r])]
                  /\ pc' = [pc EXCEPT ![r] = "rejected"]
                  /\ log' = [log EXCEPT ![r] = Append(@, "refuse")]
                  /\ UNCHANGED <<temp, conn>>
             ELSE IF temp[r].state = "unset"
             THEN /\ pc' = [pc EXCEPT ![r] = "aborted"]
                  /\ conn' = [conn EXCEPT ![r] = FALSE]
                  /\ log' = [log EXCEPT ![r] = Append(@, "raise")]
                  /\ UNCHANGED <<temp, response>>
             ELSE /\ temp' = [temp EXCEPT ![r] = write(@, chunk)]
                  /\ log' = [log EXCEPT ![r] = Append(@, "write")]
                  /\ UNCHANGED <<pc, response, conn>>
    /\ UNCHANGED <<options, request, auth, call, objects, etags, code>>

\* ------------------------------------------------- get / post / delete
\* faulty variant: the If-None-Match header is not passed on
get_object_noetag(q) == [prefix |-> q.prefix, file_path |-> q.file_path,
                         etag |-> None, local_file |-> None]

\* StorageObject(prefix, file_path, etag, None) of retrieve_file, with
\* etag the If-None-Match header
get_object(q) ==
    StorageObject(q.prefix, q.file_path, q.if_none_match, None)

\* faulty variant: every handler stages its upload under one fixed file name
post_object_shared(q, name) ==
    StorageObject(q.prefix, q.file_path, None, Some(1))

\* StorageObject(prefix, file_path, None, filename) of store_file; name
\* is self.temp.name
post_object(q, name) ==
    StorageObject(q.prefix, q.file_path, None, Some(name))

\* faulty variant: prefix and file_path change places
delete_object_swapped(q) == StorageObject(q.file_path, q.prefix, None, None)

\* StorageObject(prefix, file_path, None, None) of delete_file
delete_object(q) == StorageObject(q.prefix, q.file_path, None, None)

\* options.transfers, the size of a thread pool, as configured here
transfers == 1

\* the calls a worker is executing
Running == {q \in Reqs : call[q].state = "running"}

\* faulty variant: one pool for the whole process, whose workers are not
\* handed back when their call has settled
FreeWorker_leaked(r) ==
    Cardinality({q \in Reqs : call[q].state # "none"}) < transfers

\* initialize: self._thread_pool = ThreadPoolExecutor(options.transfers),
\* a pool of r's handler alone; it starts a call at once while fewer than
\* options.transfers of its workers are busy
FreeWorker(r) == Cardinality(Running \cap {r}) < transfers

\* run_on_executor: the call is submitted to the handler's own
\* ThreadPoolExecutor (made in initialize), which has a free worker
Submit(r, op, obj) ==
    /\ FreeWorker(r)
    /\ call' = [call EXCEPT ![r] = [op |-> op, state |-> "running",
                                    obj |-> obj, result |-> None]]
    /\ pc' = [pc EXCEPT ![r] = "backend_call"]

\* The body of r is complete: the framework calls get(), which runs to
\* its yield.
get(r) ==
    /\ pc[r] = "streaming" /\ conn[r] /\ request[r].method = "GET"
    /\ Submit(r, "retrieve", get_object(request[r]))
    /\ log' = [log EXCEPT ![r] = Append(@, "call")]
    /\ UNCHANGED <<options, request, auth, temp, response, objects, etags,
                   conn, code, sent>>

\* faulty variant: the status is set before the store call has settled
post_early(r) ==
    /\ pc[r] = "streaming" /\ conn[r] /\ request[r].method = "POST"
    /\ temp' = [temp EXCEPT ![r].state = "closed"]
    /\ Submit(r, "store", post_object(request[r], r))
    /\ response' = [response EXCEPT ![r].status = 204]
    /\ log' = [log EXCEPT ![r] = @ \o <<"close", "set_status", "call">>]
    /\ UNCHANGED <<options, request, auth, objects, etags, conn, code, sent>>

\* post() to its yield: self.temp.close(), then store_file
post(r) ==
    /\ pc[r] = "streaming" /\ conn[r] /\ request[r].method = "POST"
    /\ temp' = [temp EXCEPT ![r].state = "closed"]
    /\ Submit(r, "store", post_object(request[r], r))
    /\ log' = [log EXCEPT ![r] = @ \o <<"close", "call">>]
    /\ UNCHANGED <<options, request, auth, response, objects, etags, conn,
                   code, sent>>

\* delete() to its yield
delete(r) ==
    /\ pc[r] = "streaming" /\ conn[r] /\ request[r].method = "DELETE"
    /\ Submit(r, "delete", delete_object(request[r]))
    /\ log' = [log EXCEPT ![r] = Append(@, "call")]
    /\ UNCHANGED <<options, request, auth, temp, response, objects, etags,
                   conn, code, sent>>

\* ---------------------------------------------------- storage Transfer
Receipt(etag, local_file, by) ==
    [etag |-> etag, local_file |-> local_file, by |-> by]

\* what transfer.store leaves in the backend: the content of the file
\* obj.local_file names, under a new ETag; by (a history value) is the
\* request that stored it
Stored(obj, by) ==
    [etag |-> etags + 1, data |-> temp[Val(obj.local_file)].data,
     by |-> by]

\* what transfer.retrieve returns: nothing for a missing object, a
\* receipt without payload when obj.etag is the object's ETag, else a
\* receipt naming a local file that holds the object's content
Retrieved(obj) ==
    LET o == objects[<<obj.prefix, obj.file_path>>] IN
    IF o = None THEN None
    ELSE IF obj.etag = Some(Val(o).etag)
         THEN Some(Receipt(Val(o).etag, None, Val(o).by))
         ELSE Some(Receipt(Val(o).etag, Some(Val(o).data), Val(o).by))

Settle(r, state, result) ==
    /\ call' = [call EXCEPT ![r].state = state, ![r].result = result]
    /\ log' = [log EXCEPT ![r] = Append(@, "settled")]

\* a worker completes transfer.store: the object is stored and the staged
\* file is consumed
transfer_store(r) ==
    /\ call[r].state = "running" /\ call[r].op = "store"
    /\ LET o == Stored(call[r].obj, r) IN
          /\ objects' = [objects EXCEPT
                ![<<call[r].obj.prefix, call[r].obj.file_path>>] = Some(o)]
          /\ etags' = o.etag
          /\ temp' = [temp EXCEPT
                         ![Val(call[r].obj.local_file)].ondisk = FALSE]
          /\ Settle(r, "returned", Some(Receipt(o.etag, None, r)))
    /\ UNCHANGED <<options, pc, request, auth, response, conn, code, sent>>

\* a worker completes transfer.retrieve
transfer_retrieve(r) ==
    /\ call[r].state = "running" /\ call[r].op = "retrieve"
    /\ Settle(r, "returned", Retrieved(call[r].obj))
    /\ UNCHANGED <<options, pc, request, auth, temp, response, objects,
                   etags, conn, code, sent>>

\* a worker completes transfer.delete, whether or not the object exists
\* (the log also keeps whether the object existed, a history value)
transfer_delete(r) ==
    /\ call[r].state = "running" /\ call[r].op = "delete"
    /\ objects' = [objects EXCEPT
          ![<<call[r].obj.prefix, call[r].obj.file_path>>] = None]
    /\ call' = [call EXCEPT ![r].state = "returned", ![r].result = None]
    /\ log' = [log EXCEPT ![r] = @ \o
          <<IF objects[<<call[r].obj.prefix, call[r].obj.file_path>>] = None
            THEN "absent" ELSE "existed", "settled">>]
    /\ UNCHANGED <<options, pc, request, auth, temp, response, etags, conn,
                   code, sent>>

\* the backend call fails: the worker's future carries an exception
transfer_raise(r) ==
    /\ call[r].state = "running"
    /\ Settle(r, "raised", None)
    /\ UNCHANGED <<options, pc, request, auth, temp, response, objects,
                   etags, conn, code, sent>>

\* ------------------------------------------------------ after the yield
\* faulty variant: a read shorter than 8192 bytes is taken for the end of file
RECURSIVE read_chunks_short(_)
read_chunks_short(data) ==
    IF BLen(Take(data, ReadSize)) < ReadSize THEN <<>>
    ELSE <<Take(data, ReadSize)>> \o read_chunks_short(Drop(data, ReadSize))

\* iter(lambda: f_in.read(8192), b''): the file's content in reads of at
\* most 8192 bytes, until a read returns nothing
RECURSIVE read_chunks(_)
read_chunks(data) ==
    IF Take(data, ReadSize) = <<>> THEN <<>>
    ELSE <<Take(data, ReadSize)>> \o read_chunks(Drop(data, ReadSize))

\* get() after its yield; result is what retrieve_file returned
get_response(rsp, result, connected) ==
    IF result = None THEN send_error(rsp, 404, connected)
    ELSE LET so == Val(result)
             hdr == [rsp EXCEPT !.etag = Some(so.etag)]
         IN IF so.local_file = None
            THEN finish([hdr EXCEPT !.status = 304], connected)
            ELSE finish([hdr EXCEPT
                            !.body = read_chunks(Val(so.local_file))],
                        connected)

\* the calls get() makes on the response after its yield, in order
get_events(result) ==
    IF result = None THEN <<"respond">>
    ELSE IF Val(result).local_file = None
         THEN <<"set_header", "set_status", "respond">>
         ELSE <<"set_header">>
              \o [i \in 1..Len(read_chunks(Val(Val(result).local_file)))
                    |-> "write_body"]
              \o <<"respond">>

\* faulty variant: the ETag header is not set
post_response_noetag(rsp, result, connected) ==
    finish([rsp EXCEPT !.status = 204], connected)

\* post() after its yield
post_response(rsp, result, connected) ==
    finish([rsp EXCEPT !.status = 204, !.etag = Some(Val(result).etag)],
           connected)

\* faulty variant: set_status(204) is missing
delete_response_200(rsp, connected) == finish(rsp, connected)

\* delete() after its yield
delete_response(rsp, connected) ==
    finish([rsp EXCEPT !.status = 204], connected)

\* faulty variant: the exception is swallowed and success is reported
failed_response_swallow(rsp, connected) ==
    finish([rsp EXCEPT !.status = 204], connected)

\* an exception of the backend call is raised at the yield and leaves the
\* method: the framework answers it with send_error(500)
failed_response(rsp, connected) == send_error(rsp, 500, connected)

get_resume(r) ==
    /\ pc[r] = "backend_call" /\ call[r].state = "returned"
    /\ request[r].method = "GET"
    /\ response' = [response EXCEPT
                       ![r] = get_response(@, call[r].result, conn[r])]
    /\ log' = [log EXCEPT ![r] = @ \o get_events(call[r].result)]
    /\ pc' = [pc EXCEPT ![r] = "done"]
    /\ UNCHANGED <<options, request, auth, temp, call, objects, etags, conn,
                   code, sent>>

post_resume(r) ==
    /\ pc[r] = "backend_call" /\ call[r].state = "returned"
    /\ request[r].method = "POST"
    /\ response' = [response EXCEPT
                       ![r] = post_response(@, call[r].result, conn[r])]
    /\ log' = [log EXCEPT ![r] = @ \o <<"set_status", "set_header",
                                        "respond">>]
    /\ pc' = [pc EXCEPT ![r] = "done"]
    /\ UNCHANGED <<options, request, auth, temp, call, objects, etags, conn,
                   code, sent>>

delete_resume(r) ==
    /\ pc[r] = "backend_call" /\ call[r].state = "returned"
    /\ request[r].method = "DELETE"
    /\ response' = [response EXCEPT ![r] = delete_response(@, conn[r])]
    /\ log' = [log EXCEPT ![r] = @ \o <<"set_status", "respond">>]
    /\ pc' = [pc EXCEPT ![r] = "done"]
    /\ UNCHANGED <<options, request, auth, temp, call, objects, etags, conn,
                   code, sent>>

handler_exception(r) ==
    /\ pc[r] = "backend_call" /\ call[r].state = "raised"
    /\ response' = [response EXCEPT ![r] = failed_response(@, conn[r])]
    /\ log' = [log EXCEPT ![r] = Append(@, "respond")]
    /\ pc' = [pc EXCEPT ![r] = "done"]
    /\ UNCHANGED <<options, request, auth, temp, call, objects, etags, conn,
                   code, sent>>

\* ------------------------------------------------------ client goes away
\* The client of r closes the connection.  FileHandler does not override
\* on_connection_close.  While the body is streaming the verb method is
\* never called; while prepare() or the backend call is pending, that
\* step still runs to its end.
on_connection_close(r) ==
    /\ conn[r]
    /\ pc[r] \in {"awaiting_auth", "streaming", "backend_call"}
    /\ conn' = [conn EXCEPT ![r] = FALSE]
    /\ pc' = [pc EXCEPT ![r] = IF @ = "streaming" THEN "aborted" ELSE @]
    /\ UNCHANGED <<options, request, auth, temp, response, call, objects,
                   etags, code, sent, log>>

\* ------------------------------------------------------------------ Next
Next ==
    \E r \in Reqs :
        \/ prepare(r)
        \/ unrouted(r)
        \/ prepare_resume(r)
        \/ data_received(r)
        \/ get(r)
        \/ post(r)
        \/ delete(r)
        \/ transfer_store(r)
        \/ transfer_retrieve(r)
        \/ transfer_delete(r)
        \/ transfer_raise(r)
        \/ get_resume(r)
        \/ post_resume(r)
        \/ delete_resume(r)
        \/ handler_exception(r)
        \/ on_connection_close(r)

Spec == Init /\ [][Next]_vars

\* ------------------------------------------- concurrent uploads, fair
\* Uploads alone: every request is a POST that is authorized, the requests
\* in flight name pairwise different objects, no client goes away and no
\* backend call fails.
UploadArrives(r) ==
    /\ prepare(r)
    /\ request'[r].method = "POST"
    /\ auth'[r] # "False"
    /\ \A q \in Reqs \ {r} : pc[q] # "idle" => KeyOf(q) # KeyOf(r)'

UploadAuthorized(r) == prepare_resume(r) /\ auth'[r] = "True"

UploadsNext ==
    \E r \in Reqs :
        \/ UploadArrives(r)
        \/ UploadAuthorized(r)
        \/ data_received(r)
        \/ post(r)
        \/ transfer_store(r)
        \/ post_resume(r)

\* The IOLoop runs every callback that is ready, the accounting server
\* answers, the client ends its body, and a worker finishes its call.
UploadsSpec ==
    /\ Init
    /\ [][UploadsNext]_vars
    /\ \A r \in Reqs :
          /\ WF_vars(UploadAuthorized(r))
          /\ WF_vars(post(r))
          /\ WF_vars(transfer_store(r))
          /\ WF_vars(post_resume(r))

\* =============================================================== claims
\* event a occurs in log L before position i
Before(L, a, i) == \E j \in 1..(i - 1) : L[j] = a
Has(L, a) == \E i \in DOMAIN L : L[i] = a
Ended(r) == pc[r] \in {"done", "rejected", "aborted"}
ResponseEvents == {"set_header", "set_status", "write_body", "respond"}

\* C1: a request the Authorizer denied (whatever its verb) is answered
\* with 403, has issued no backend call, has no transient upload file, and
\* has created no object.
C1_DeniedHasNoEffect ==
    \A r \in Reqs :
        auth[r] = "False" =>
            /\ response[r].finished /\ response[r].status = 403
            /\ call[r] = NoCall
            /\ temp[r] = NoTemp
            /\ \A k \in Keys :
                  objects[k] # None => Val(objects[k]).by # r

\* a denied POST whose body chunks were all delivered
C1_Witness ==
    \E r \in Reqs :
        /\ auth[r] = "False" /\ request[r].method = "POST"
        /\ NumChunks(r) = MaxChunks

\* C2: a chunk is written to the transient file only after the request's
\* authorization resolved to true; a chunk that arrives while it is not
\* true is not written, the request is rejected with an error response and
\* nothing is written afterwards.
C2_ChunkWrittenOnlyIfAuthorized ==
    \A r \in Reqs :
        /\ temp[r].data # <<>> => auth[r] = "True"
        /\ \A i \in DOMAIN log[r] :
              /\ log[r][i] \in {"write", "raise"}
                    => auth[r] = "True" /\ Before(log[r], "True", i)
              /\ log[r][i] = "refuse"
                    => /\ auth[r] # "True"
                       /\ pc[r] = "rejected"
                       /\ response[r].finished
                       /\ response[r].status \in 400..599
                       /\ temp[r].data = <<>>
                       /\ ~Has(log[r], "write")

\* one POST has a chunk on file, another was refused a chunk
C2_Witness ==
    \E r, q \in Reqs :
        /\ request[r].method = "POST" /\ temp[r].data # <<>>
        /\ request[q].method = "POST" /\ Has(log[q], "refuse")

\* C3: the remote check resolves to true only on an answer of exactly
\* 204; on any other answer (another status, or the 599 of a network
\* failure or timeout) it resolves to false and the request is denied like
\* any other: 403, no backend call, no transient file.
C3_RemoteCheckFailsClosed ==
    \A r \in Reqs :
        code[r] # None /\ auth[r] # "None" =>
            /\ auth[r] = "True" <=> Val(code[r]) = 204
            /\ Val(code[r]) # 204 =>
                  /\ auth[r] = "False"
                  /\ pc[r] = "rejected"
                  /\ response[r].finished /\ response[r].status = 403
                  /\ call[r] = NoCall
                  /\ temp[r] = NoTemp

\* the fetch failed (599) for one request and another status than 204
\* came back for another
C3_Witness ==
    \E r, q \in Reqs :
        /\ code[r] = Some(599) /\ auth[r] = "False"
        /\ code[q] = Some(200) /\ auth[q] = "False"

\* C4 (as claimed): when a request has ended, a transient file that was
\* opened for it is closed and was handed to the store call or discarded.
C4_NoTransientFileOutlivesRequest ==
    \A r \in Reqs :
        Ended(r) /\ temp[r].state # "unset" =>
            /\ temp[r].state = "closed"
            /\ call[r].op = "store" \/ ~temp[r].ondisk

\* C5: within a request the steps keep their order: authorization
\* resolves to true before a chunk is written; the body is complete and the
\* transient file closed before the backend call is issued; the backend
\* call has settled before anything of the response is emitted; a request
\* that ran to its end skipped none of them.
C5_LifecycleOrder ==
    \A r \in Reqs :
        /\ \A i \in DOMAIN log[r] :
              /\ log[r][i] = "write" => Before(log[r], "True", i)
              /\ log[r][i] = "call" =>
                    /\ Before(log[r], "True", i)
                    /\ request[r].method = "POST"
                          => Before(log[r], "close", i)
                    /\ \A j \in DOMAIN log[r] :
                          j > i => log[r][j] \notin {"write", "close"}
              /\ log[r][i] \in ResponseEvents /\ auth[r] = "True"
                    => Before(log[r], "call", i)
                       /\ Before(log[r], "settled", i)
              /\ log[r][i] = "settled" => Before(log[r], "call", i)
        /\ call[r].state = "running" =>
              /\ response[r] = NoResponse
              /\ request[r].method = "POST"
                    => temp[r].state = "closed" /\ temp[r].data = sent[r]
        /\ pc[r] = "done" =>
              /\ call[r].state \in {"returned", "raised"}
              /\ response[r].finished
              /\ Has(log[r], "respond")

\* a POST that wrote chunks, stored them and answered
C5_Witness ==
    \E r \in Reqs :
        /\ pc[r] = "done" /\ request[r].method = "POST"
        /\ call[r].state = "returned"
        /\ NumChunks(r) = MaxChunks

\* C6: when the backend call of a request fails, nothing of a response
\* has been emitted before the failure is known, and the request is then
\* answered with a 5xx response carrying no ETag and no body, which reaches
\* the client if it is still connected.
C6_BackendFailureGives5xx ==
    \A r \in Reqs :
        call[r].state = "raised" =>
            /\ pc[r] = "backend_call" => response[r] = NoResponse
            /\ pc[r] = "done" =>
                  /\ response[r].finished
                  /\ response[r].status \in 500..599
                  /\ response[r].etag = None
                  /\ response[r].body = <<>>
                  /\ response[r].delivered = conn[r]
                  /\ ~(\E i \in DOMAIN log[r] :
                          log[r][i] \in ResponseEvents \ {"respond"})

\* the store call of one request failed and was answered; the other
\* request was served afterwards all the same
C6_Witness ==
    \E r, q \in Reqs :
        /\ r < q
        /\ call[r].state = "raised" /\ call[r].op = "store"
        /\ pc[r] = "done" /\ response[r].delivered
        /\ pc[q] = "done" /\ call[q].state = "returned"

\* C7: the response of an authorized GET is a function of the retrieve
\* result alone: nothing -> 404 without ETag; a receipt without payload
\* -> 304 with the receipt's ETag and no body; a receipt with a payload ->
\* 200 with the receipt's ETag, set before the first body chunk, and the
\* payload as body, in order, in chunks of 1..8192 bytes.
C7_GetResponseFromRetrieveResult ==
    \A r \in Reqs :
        /\ request[r].method = "GET" /\ pc[r] = "done"
        /\ call[r].state = "returned"
        => LET res == call[r].result
               rsp == response[r]
           IN /\ rsp.finished
              /\ res = None =>
                    rsp.status = 404 /\ rsp.etag = None /\ rsp.body = <<>>
              /\ res # None /\ Val(res).local_file = None =>
                    /\ rsp.status = 304
                    /\ rsp.etag = Some(Val(res).etag)
                    /\ rsp.body = <<>>
              /\ res # None /\ Val(res).local_file # None =>
                    /\ rsp.status = 200
                    /\ rsp.etag = Some(Val(res).etag)
                    /\ Join(rsp.body) = Val(Val(res).local_file)
                    /\ \A i \in DOMAIN rsp.body :
                          BLen(rsp.body[i]) \in 1..ReadSize
                    /\ \A i \in DOMAIN log[r] :
                          log[r][i] = "write_body"
                             => Before(log[r], "set_header", i)
                    /\ Cardinality({i \in DOMAIN log[r] :
                                       log[r][i] = "write_body"})
                          = Len(rsp.body)

\* a GET answered 200 with a payload of more than 8192 bytes, in two chunks
C7_Witness ==
    \E r \in Reqs :
        /\ request[r].method = "GET" /\ pc[r] = "done"
        /\ response[r].status = 200
        /\ Len(response[r].body) = 2
        /\ BLen(response[r].body[2]) < ReadSize

\* C8: round trip.  A GET without If-None-Match whose retrieve found the
\* object a POST stored (no write or delete of the key in between), that
\* POST having been answered 204 with ETag e, is answered 200 with ETag e
\* and a body equal to the bytes sent to the POST.
C8_RoundTrip ==
    \A g \in Reqs :
        /\ request[g].method = "GET" /\ pc[g] = "done"
        /\ request[g].if_none_match = None
        /\ call[g].state = "returned" /\ call[g].result # None
        => LET p == Val(call[g].result).by IN
              response[p].finished /\ response[p].status = 204 =>
                  /\ request[p].method = "POST"
                  /\ KeyOf(p) = KeyOf(g)
                  /\ response[g].status = 200
                  /\ response[g].etag = response[p].etag
                  /\ response[g].etag # None
                  /\ Join(response[g].body) = sent[p]

\* a POST of two different chunks answered 204, then read back by a GET
C8_Witness ==
    \E g, p \in Reqs :
        /\ request[g].method = "GET" /\ pc[g] = "done"
        /\ request[g].if_none_match = None
        /\ call[g].result # None /\ Val(call[g].result).by = p
        /\ response[p].finished /\ response[p].status = 204
        /\ Has(log[p], "respond") /\ Len(sent[p]) = 2
        /\ response[g].status = 200

\* C9: conditional retrieval.  A GET of an existing object is answered 304
\* without body when its If-None-Match header is the object's current
\* ETag, and 200 with the object's full content when the header is absent
\* or names another ETag.
C9_ConditionalRetrieval ==
    \A g \in Reqs :
        /\ request[g].method = "GET" /\ pc[g] = "done"
        /\ call[g].state = "returned" /\ call[g].result # None
        => LET rc == Val(call[g].result) IN
              /\ request[g].if_none_match = Some(rc.etag) =>
                    response[g].status = 304 /\ response[g].body = <<>>
              /\ request[g].if_none_match # Some(rc.etag) =>
                    /\ response[g].status = 200
                    /\ Join(response[g].body) = sent[rc.by]

\* one behaviour cannot hold a 304 and a stale 200 with two requests; the
\* witness is the 304 of a GET naming the current ETag of a non-empty object
C9_Witness ==
    \E g \in Reqs :
        /\ request[g].method = "GET" /\ pc[g] = "done"
        /\ call[g].result # None
        /\ request[g].if_none_match = Some(Val(call[g].result).etag)
        /\ sent[Val(call[g].result).by] # <<>>
        /\ response[g].status = 304

\* C10: an authorized POST whose store call succeeded is answered 204 with
\* the ETag of the receipt store returned, and no body.
C10_PostResponse ==
    \A r \in Reqs :
        /\ request[r].method = "POST" /\ pc[r] = "done"
        /\ call[r].state = "returned"
        => /\ response[r].finished
           /\ response[r].status = 204
           /\ response[r].etag = Some(Val(call[r].result).etag)
           /\ response[r].body = <<>>
           /\ response[r].delivered = conn[r]

\* a POST with a body, stored and answered to a connected client
C10_Witness ==
    \E r \in Reqs :
        /\ request[r].method = "POST" /\ pc[r] = "done"
        /\ call[r].state = "returned" /\ sent[r] # <<>>
        /\ response[r].delivered

\* C11: an authorized DELETE whose backend call succeeded is answered 204
\* with no ETag and no body, the same response whether the object existed
\* or not (so also when the DELETE is repeated).
C11_DeleteIdempotent ==
    \A r \in Reqs :
        /\ request[r].method = "DELETE" /\ pc[r] = "done"
        /\ call[r].state = "returned"
        => /\ Has(log[r], "existed") \/ Has(log[r], "absent")
           /\ response[r] =
                 [status |-> 204, etag |-> None, body |-> <<>>,
                  finished |-> TRUE, delivered |-> conn[r]]

\* a DELETE of an existing object and a DELETE of a missing one, both
\* answered
C11_Witness ==
    \E r, q \in Reqs :
        /\ request[r].method = "DELETE" /\ pc[r] = "done"
        /\ Has(log[r], "absent") /\ response[r].delivered
        /\ request[q].method = "DELETE" /\ pc[q] = "done"
        /\ Has(log[q], "absent") /\ response[q].delivered
        /\ r # q /\ KeyOf(r) = KeyOf(q)

\* a DELETE of an object a POST had stored, answered
C11_WitnessExisting ==
    \E r \in Reqs :
        /\ request[r].method = "DELETE" /\ pc[r] = "done"
        /\ Has(log[r], "existed") /\ response[r].delivered

\* C12 (as claimed): a request whose URL does not match the route is
\* answered 403, with no Authorizer call, no backend call and no transient
\* file.
C12_BadRouteGives403 ==
    \A r \in Reqs :
        pc[r] = "unrouted" =>
            /\ response[r].finished /\ response[r].status = 403
            /\ auth[r] = "None" /\ code[r] = None
            /\ call[r] = NoCall
            /\ temp[r] = NoTemp

\* C13 (as claimed): over all requests in flight, no more backend calls
\* are executing at a time than the configured pool size.
C13_PoolBoundsBackendCalls == Cardinality(Running) <= transfers

\* C14: concurrent authorized POSTs to pairwise different objects, however
\* interleaved and more of them than the pool size, all complete: each is
\* eventually answered 204 with the ETag its own store call returned, an
\* ETag no other request was answered with.
UploadCompleted(r) ==
    /\ pc[r] = "done"
    /\ call[r].state = "returned" /\ call[r].result # None
    /\ response[r] = [status |-> 204,
                      etag |-> Some(Val(call[r].result).etag),
                      body |-> <<>>, finished |-> TRUE, delivered |-> TRUE]
    /\ \A q \in Reqs \ {r} : response[q].etag # response[r].etag

C14_UploadsAllComplete ==
    \A r \in Reqs : (pc[r] # "idle") ~> UploadCompleted(r)

\* two uploads, more than the pool size, whose store calls ran at the same
\* time and settled in the other order than the requests arrived
C14_Witness ==
    /\ NumReqs > transfers
    /\ \A r \in Reqs : UploadCompleted(r)
    /\ response[1].etag = Some(2) /\ response[2].etag = Some(1)

\* C15 (as claimed): when the client of a request went away while its body
\* was streaming, no backend call is issued for it and its transient file
\* is discarded; when the client went away during the backend call, the
\* call completes and no response is emitted from its result.
C15_CancellationDiscards ==
    \A r \in Reqs :
        /\ pc[r] = "aborted" /\ ~Has(log[r], "raise")
           => /\ call[r] = NoCall
              /\ ~temp[r].ondisk /\ temp[r].state # "open"
        /\ pc[r] = "done" /\ call[r] # NoCall /\ ~conn[r]
           => ~response[r].delivered

\* C16 (as claimed): with the 'no auth' flag set, every routed request is
\* authorized, whatever its Authorization header and whatever the other
\* flags, and no Authorizer check, remote or static, decides about it.
C16_NoAuthAdmitsAll ==
    options.noauth =>
        \A r \in Reqs :
            /\ auth[r] # "False"
            /\ code[r] = None
            /\ pc[r] \notin {"idle", "unrouted", "awaiting_auth"}
               => auth[r] = "True"

\* C17: per-request state is not shared.  A step changes the state of one
\* request at most (so the rejection or the backend failure of a request
\* leaves every other request as it was); the file of a request holds the
\* chunks of that request and no other; the authorization of a request is
\* the Authorizer's answer to its own credential and prefix; and a store
\* call is handed the file of the request that issued it.
Local(r) == <<pc[r], request[r], auth[r], temp[r], response[r], call[r],
              conn[r], code[r], sent[r], log[r]>>

Isolated == \A r, q \in Reqs : r # q /\ Local(r)' # Local(r)
                                 => Local(q)' = Local(q)

OwnState ==
    \A r \in Reqs :
        /\ temp[r].state # "unset" => temp[r].data = sent[r]
        /\ auth[r] = "True" =>
              auth_callback(request[r].auth_header, request[r].prefix,
                            IF code[r] = None THEN 0 ELSE Val(code[r]))
        /\ call[r].op = "store" => call[r].obj.local_file = Some(r)
        /\ \A k \in Keys :
              objects[k] # None /\ Val(objects[k]).by = r
              => Val(objects[k]).data = sent[r]

C17_RequestStateNotShared == [][Isolated /\ OwnState']_vars

\* two uploads with different bodies in flight together: one is answered
\* 500 after its store call failed, the other is answered 204 and its
\* object holds its own body
C17_Witness ==
    \E r, q \in Reqs :
        /\ request[r].method = "POST" /\ request[q].method = "POST"
        /\ sent[r] # <<>> /\ sent[q] # <<>> /\ sent[r] # sent[q]
        /\ pc[r] = "done" /\ call[r].state = "raised"
        /\ response[r].status = 500
        /\ pc[q] = "done" /\ response[q].status = 204
        /\ objects[KeyOf(q)] # None
        /\ Val(objects[KeyOf(q)]).by = q
        /\ Val(objects[KeyOf(q)]).data = sent[q]

\* C18: a request issues a backend call only when authorized, one call at
\* most and exactly one once it is answered from the backend, right after
\* its preceding lifecycle step: GET calls retrieve with the If-None-Match
\* value as etag and no local file, DELETE calls delete with neither, POST
\* calls store (right after closing its file) with its own transient file
\* and no etag; prefix and path are the route's.
Count(L, a) == Cardinality({i \in DOMAIN L : L[i] = a})

ExpectedCall(r) ==
    CASE request[r].method = "GET" ->
            [op |-> "retrieve",
             obj |-> StorageObject(request[r].prefix, request[r].file_path,
                                   request[r].if_none_match, None),
             after |-> "True"]
      [] request[r].method = "DELETE" ->
            [op |-> "delete",
             obj |-> StorageObject(request[r].prefix, request[r].file_path,
                                   None, None),
             after |-> "True"]
      [] request[r].method = "POST" ->
            [op |-> "store",
             obj |-> StorageObject(request[r].prefix, request[r].file_path,
                                   None, Some(r)),
             after |-> "close"]
      [] OTHER -> [op |-> "-", obj |-> NoObject, after |-> "-"]

C19_StoreSeesWholeBody ==
    \A r \in Reqs :
        call[r].op = "store" =>
            /\ temp[r].state = "closed"
            /\ temp[r].data = sent[r]
            /\ Before(log[r], "close", Len(log[r]) + 1)
            /\ Count(log[r], "write") = NumChunks(r)

\* store is running for a body of two different chunks
C19_Witness ==
    \E r \in Reqs :
        /\ call[r].op = "store" /\ call[r].state = "running"
        /\ Count(log[r], "write") = 2
        /\ Len(sent[r]) = 2

\* C20 (as claimed): whenever a body chunk passes the authorization guard
\* of data_received, whatever the verb, a transient file has been opened for
\* the request before.
C20_AcceptedChunkHasHandle ==
    \A r \in Reqs : \A i \in DOMAIN log[r] :
        log[r][i] \in {"write", "raise"} => Before(log[r], "open", i)

====
